---------------------------- MODULE Spec2Model ----------------------------
(***************************************************************************)
(* Databoy quiz front end (src/script.js): the shared `state` object, the  *)
(* DOM properties the script sets to enable and disable its controls, the  *)
(* three asynchronous load handlers, and the quiz handlers.                *)
(*                                                                         *)
(* Indices are 0-based as in the script; sequences are 1-based, so the     *)
(* script's state.quizData[i] is quizData[i + 1] here.                     *)
(*                                                                         *)
(* The page markup is not part of the sources.  What the model takes from  *)
(* it is stated in QuizActivePanel and QuizResultsPanel: the option list   *)
(* and the prev/next buttons are children of #quiz-active, the restart     *)
(* button is a child of #quiz-results, and a control inside a panel with   *)
(* display:none (or a disabled button) receives no click.                  *)
(*                                                                         *)
(* The last part models parseQuizFromText() of the Express server          *)
(* (src/unnamed/part_000) under its own specification, SpecParse, and      *)
(* showResults() as a function of the state it reads under SpecReport.     *)
(***************************************************************************)
EXTENDS Integers, Sequences, FiniteSets, TLC

\* ---------------------------------------------------------------- bounds
\* Longest dataset a server response carries.
MaxQuestions == 2
\* Cap on state.score (the script itself never bounds it).
MaxScore == 3

\* ------------------------------------------------------------ data shapes
\* JavaScript null (userAnswers slots after fill(null), quizId).
Null == "null"
\* JavaScript undefined (a hole of an array, a missing element).
Undefined == "undefined"
\* #options-group before the first renderQuestion(): no option, no listener.
NoQuestion == [options |-> <<>>, correct |-> "undefined"]

Letters == {"A", "B"}

\* One element of the quiz JSON array: its option letters in order and its
\* `correct` letter (the texts and the number do not influence the session).
Questions == [options : {<<"A", "B">>}, correct : Letters]

\* The `data` arrays a server response may carry (the empty array included).
Datasets == UNION {[1..n -> Questions] : n \in 0..MaxQuestions}

\* Quiz ids the server hands out.
QuizIds == {"id1", "id2"}

Range(s) == {s[k] : k \in 1..Len(s)}

Max(a, b) == IF a >= b THEN a ELSE b

VARIABLES
    quizData,      \* state.quizData
    quizId,        \* state.quizId
    currentIndex,  \* state.currentIndex
    score,         \* state.score
    answered,      \* state.answered
    userAnswers,   \* state.userAnswers
    emptyShown,    \* #quiz-empty is displayed
    activeShown,   \* #quiz-active is displayed
    resultsShown,  \* #quiz-results is displayed
    nextDisabled,  \* #next-btn.disabled
    prevShown,     \* #prev-btn is displayed
    rendered,      \* the question whose options (and click listeners) fill #options-group
    inflight,      \* the load handler suspended at an await: {} or {[op, pc]}
    lastOp,        \* history: the handler that took the last step
    doc,           \* server: the document whose text the /upload route parses
    questions,     \* server: the array parseQuizFromText() returned
    segments,      \* server, history: the chunks of rawBlocks that passed the marker test
    submits,       \* history: clicks that handleAnswer() accepted in a straight run
    advances       \* history: calls of nextQuestion() in a straight run

session == <<quizData, quizId, currentIndex, score, answered, userAnswers>>
dom == <<emptyShown, activeShown, resultsShown, nextDisabled, prevShown, rendered>>
vars == <<quizData, quizId, currentIndex, score, answered, userAnswers,
          emptyShown, activeShown, resultsShown, nextDisabled, prevShown,
          rendered, inflight, lastOp, doc, questions, segments,
          submits, advances>>
server == <<doc, questions, segments>>
counts == <<submits, advances>>

\* new Array(n).fill(null)
NullArray(n) == [k \in 1..n |-> Null]

\* arr[i] = v on a JavaScript array: a write past the end grows the array and
\* leaves holes (undefined) in between.
SetSlot(arr, i, v) ==
    [k \in 1..Max(Len(arr), i + 1) |->
        IF k = i + 1 THEN v
        ELSE IF k <= Len(arr) THEN arr[k] ELSE Undefined]

Init ==
    /\ quizData = <<>>
    /\ quizId = Null
    /\ currentIndex = 0
    /\ score = 0
    /\ answered = FALSE
    /\ userAnswers = <<>>
    /\ emptyShown = TRUE
    /\ activeShown = FALSE
    /\ resultsShown = FALSE
    /\ nextDisabled = TRUE
    /\ prevShown = FALSE
    /\ rendered = NoQuestion
    /\ inflight = {}
    /\ lastOp = "init"
    /\ doc = <<>>
    /\ questions = <<>>
    /\ segments = <<>>
    /\ submits = 0
    /\ advances = 0


\* ------------------------------------------------------------- rendering
\* renderQuestion() after state.quizData = data and state.currentIndex = idx.
\* It clears state.answered first; with no question at idx (q undefined) the
\* read of q.number throws before the option list and the nav buttons are
\* rebuilt, so those keep what they showed.
renderQuestion(data, idx) ==
    /\ answered' = FALSE
    /\ IF idx < Len(data)
         THEN /\ rendered' = data[idx + 1]
              /\ prevShown' = (idx > 0)
              /\ nextDisabled' = TRUE
         ELSE UNCHANGED <<rendered, prevShown, nextDisabled>>

\* renderQuiz(): show #quiz-active alone, then renderQuestion().
renderQuiz(data, idx) ==
    /\ emptyShown' = FALSE
    /\ resultsShown' = FALSE
    /\ activeShown' = TRUE
    /\ renderQuestion(data, idx)

\* showResults() that forgets to hide #quiz-active.
showResultsKeepsActive ==
    /\ resultsShown' = TRUE
    /\ UNCHANGED activeShown

\* showResults(): swap #quiz-active for #quiz-results; the report it writes
\* is derived from the state and changes none of it.
showResults ==
    /\ activeShown' = FALSE
    /\ resultsShown' = TRUE

\* --------------------------------------------------------- quiz handlers
\* handleAnswer() without its `if (state.answered) return`.
handleAnswerNoLock(selectedLetter, correctLetter) ==
    /\ answered' = TRUE
    /\ userAnswers' = SetSlot(userAnswers, currentIndex, selectedLetter)
    /\ score' = IF selectedLetter = correctLetter THEN score + 1 ELSE score
    /\ nextDisabled' = FALSE
    /\ UNCHANGED <<quizData, quizId, currentIndex>>
    /\ UNCHANGED <<emptyShown, activeShown, resultsShown, prevShown, rendered>>

\* handleAnswer() without `state.userAnswers[state.currentIndex] = selectedLetter`.
handleAnswerForgetsAnswer(selectedLetter, correctLetter) ==
    IF answered
      THEN UNCHANGED <<session, dom>>
      ELSE /\ answered' = TRUE
           /\ score' = IF selectedLetter = correctLetter THEN score + 1 ELSE score
           /\ nextDisabled' = FALSE
           /\ UNCHANGED <<quizData, quizId, currentIndex, userAnswers>>
           /\ UNCHANGED <<emptyShown, activeShown, resultsShown, prevShown, rendered>>

\* handleAnswer(el, selectedLetter, correctLetter)
handleAnswer(selectedLetter, correctLetter) ==
    IF answered
      THEN UNCHANGED <<session, dom>>
      ELSE /\ answered' = TRUE
           /\ userAnswers' = SetSlot(userAnswers, currentIndex, selectedLetter)
           /\ IF selectedLetter = correctLetter
                THEN /\ score' = score + 1
                     /\ nextDisabled' = FALSE
                ELSE /\ score' = score
                     \* quizData[currentIndex].options throws when there is
                     \* no such question: #next-btn is not reached
                     /\ nextDisabled' =
                          IF currentIndex < Len(quizData) THEN FALSE ELSE nextDisabled
           /\ UNCHANGED <<quizData, quizId, currentIndex>>
           /\ UNCHANGED <<emptyShown, activeShown, resultsShown, prevShown, rendered>>

\* nextQuestion() with `currentIndex < total` for `currentIndex < total - 1`.
nextQuestionOffByOne ==
    IF currentIndex < Len(quizData)
      THEN /\ currentIndex' = currentIndex + 1
           /\ renderQuestion(quizData, currentIndex + 1)
           /\ UNCHANGED <<quizData, quizId, score, userAnswers>>
           /\ UNCHANGED <<emptyShown, activeShown, resultsShown>>
      ELSE /\ showResults
           /\ UNCHANGED session
           /\ UNCHANGED <<emptyShown, nextDisabled, prevShown, rendered>>

\* nextQuestion() that does nothing on the last question.
nextQuestionNeverFinishes ==
    IF currentIndex < Len(quizData) - 1
      THEN /\ currentIndex' = currentIndex + 1
           /\ renderQuestion(quizData, currentIndex + 1)
           /\ UNCHANGED <<quizData, quizId, score, userAnswers>>
           /\ UNCHANGED <<emptyShown, activeShown, resultsShown>>
      ELSE UNCHANGED <<session, dom>>

\* window.nextQuestion
nextQuestion ==
    IF currentIndex < Len(quizData) - 1
      THEN /\ currentIndex' = currentIndex + 1
           /\ renderQuestion(quizData, currentIndex + 1)
           /\ UNCHANGED <<quizData, quizId, score, userAnswers>>
           /\ UNCHANGED <<emptyShown, activeShown, resultsShown>>
      ELSE /\ showResults
           /\ UNCHANGED session
           /\ UNCHANGED <<emptyShown, nextDisabled, prevShown, rendered>>

\* prevQuestion() that also clears the answer of the question it returns to.
prevQuestionClearsAnswer ==
    IF currentIndex > 0
      THEN /\ currentIndex' = currentIndex - 1
           /\ userAnswers' = SetSlot(userAnswers, currentIndex - 1, Null)
           /\ renderQuestion(quizData, currentIndex - 1)
           /\ UNCHANGED <<quizData, quizId, score>>
           /\ UNCHANGED <<emptyShown, activeShown, resultsShown>>
      ELSE UNCHANGED <<session, dom>>

\* window.prevQuestion
prevQuestion ==
    IF currentIndex > 0
      THEN /\ currentIndex' = currentIndex - 1
           /\ renderQuestion(quizData, currentIndex - 1)
           /\ UNCHANGED <<quizData, quizId, score, userAnswers>>
           /\ UNCHANGED <<emptyShown, activeShown, resultsShown>>
      ELSE UNCHANGED <<session, dom>>

\* restartQuiz() without `state.score = 0`.
restartQuizKeepsScore ==
    /\ currentIndex' = 0
    /\ userAnswers' = NullArray(Len(quizData))
    /\ renderQuiz(quizData, 0)
    /\ UNCHANGED <<quizData, quizId, score>>

\* window.restartQuiz
restartQuiz ==
    /\ currentIndex' = 0
    /\ score' = 0
    /\ userAnswers' = NullArray(Len(quizData))
    /\ renderQuiz(quizData, 0)
    /\ UNCHANGED <<quizData, quizId>>

\* window.resetUpload
resetUpload ==
    /\ emptyShown' = TRUE
    /\ activeShown' = FALSE
    /\ resultsShown' = FALSE
    /\ quizData' = <<>>
    /\ userAnswers' = <<>>
    /\ UNCHANGED <<quizId, currentIndex, score, answered>>
    /\ UNCHANGED <<nextDisabled, prevShown, rendered>>

\* --------------------------------------------------------- load handlers
LoadOps == {"handleFileUpload", "handleJsonInput", "openSavedQuiz"}

\* The awaits of each handler, in program order.  openSavedQuiz awaits
\* loadQuizFromServer (fetch, then response.json()) and then sleep(500).
Awaits(op) ==
    CASE op = "handleFileUpload" -> <<"fetch", "json", "sleep">>
      [] op = "handleJsonInput"  -> <<"fetch", "sleep", "json">>
      [] op = "openSavedQuiz"    -> <<"fetch", "json", "sleep">>

\* fetch() rejects or the response is not ok; response.json() rejects or the
\* result has success = false.  sleep() never fails.
CanFail(pc) == pc \in {"fetch", "json"}

IsLastAwait(r) == Awaits(r.op)[Len(Awaits(r.op))] = r.pc

NextAwait(r) ==
    LET k == CHOOSE j \in 1..Len(Awaits(r.op)) : Awaits(r.op)[j] = r.pc
    IN  [op |-> r.op, pc |-> Awaits(r.op)[k + 1]]

\* handleFileUpload, "Store quiz data" to renderQuiz(); resultQuizId is
\* result.quizId, Undefined when the response carries none.
handleFileUploadStore(data, resultQuizId) ==
    /\ quizData' = data
    /\ quizId' = IF resultQuizId = Undefined THEN Null ELSE resultQuizId
    /\ currentIndex' = 0
    /\ score' = 0
    /\ userAnswers' = NullArray(Len(data))
    /\ renderQuiz(data, 0)

\* A store that leaves the score of the previous attempt in place.
handleJsonInputStoreKeepsScore(data) ==
    /\ quizData' = data
    /\ currentIndex' = 0
    /\ userAnswers' = NullArray(Len(data))
    /\ renderQuiz(data, 0)
    /\ UNCHANGED <<quizId, score>>

\* handleJsonInput, "Store quiz data" to renderQuiz(): state.quizId is not
\* assigned.
handleJsonInputStore(data) ==
    /\ quizData' = data
    /\ currentIndex' = 0
    /\ score' = 0
    /\ userAnswers' = NullArray(Len(data))
    /\ renderQuiz(data, 0)
    /\ UNCHANGED quizId

\* openSavedQuiz, the assignments after the last await to renderQuiz(); the
\* entry's data is stored whatever its length, and a throw of renderQuiz()
\* lands in the catch after the assignments.
openSavedQuizStore(data, entryId) ==
    /\ quizData' = data
    /\ quizId' = entryId
    /\ currentIndex' = 0
    /\ score' = 0
    /\ userAnswers' = NullArray(Len(data))
    /\ renderQuiz(data, 0)

\* The check `!result.data || result.data.length === 0` of handleFileUpload
\* and handleJsonInput; openSavedQuiz has none.
RejectsEmpty(op) == op \in {"handleFileUpload", "handleJsonInput"}

\* ---------------------------------------------------------------- markup
\* #options-group, #prev-btn and #next-btn are inside #quiz-active.
QuizActivePanel == activeShown
\* The button that calls restartQuiz() is inside #quiz-results.
QuizResultsPanel == resultsShown

\* --------------------------------------------------------------- actions
\* A click on the option `letter` of the rendered question: the listener
\* renderQuestion() attached calls handleAnswer(div, opt.letter, q.correct).
ClickOption(letter) ==
    /\ QuizActivePanel
    /\ letter \in Range(rendered.options)
    /\ (~answered /\ letter = rendered.correct) => score < MaxScore
    /\ handleAnswer(letter, rendered.correct)
    /\ lastOp' = IF answered THEN "ignoredAnswer" ELSE "handleAnswer"
    /\ UNCHANGED <<inflight, server, counts>>

ClickNext ==
    /\ QuizActivePanel
    /\ ~nextDisabled
    /\ nextQuestion
    /\ lastOp' = "nextQuestion"
    /\ UNCHANGED <<inflight, server, counts>>

ClickPrev ==
    /\ QuizActivePanel
    /\ prevShown
    /\ prevQuestion
    /\ lastOp' = "prevQuestion"
    /\ UNCHANGED <<inflight, server, counts>>

ClickRestart ==
    /\ QuizResultsPanel
    /\ restartQuiz
    /\ lastOp' = "restartQuiz"
    /\ UNCHANGED <<inflight, server, counts>>

ResetUpload ==
    /\ resetUpload
    /\ lastOp' = "resetUpload"
    /\ UNCHANGED <<inflight, server, counts>>

\* A load handler runs up to its first await (a PDF was chosen, the JSON
\* text is not empty, a saved quiz was picked).  The model follows one load
\* at a time: a handler stores its response in one synchronous step, so two
\* pending loads behave as the two loads taken one after the other.
StartLoad(op) ==
    /\ inflight = {}
    /\ inflight' = inflight \cup {[op |-> op, pc |-> "fetch"]}
    /\ lastOp' = "loading"
    /\ UNCHANGED <<session, dom, server, counts>>

\* The awaited call succeeds and the handler runs to its next await.
AwaitResumes(r) ==
    /\ ~IsLastAwait(r)
    /\ inflight' = (inflight \ {r}) \cup {NextAwait(r)}
    /\ lastOp' = "loading"
    /\ UNCHANGED <<session, dom, server, counts>>

\* A catch block that also discards the quiz, as resetUpload() does.
AwaitFailsDiscardsQuiz(r) ==
    /\ CanFail(r.pc)
    /\ inflight' = inflight \ {r}
    /\ lastOp' = "loadFailed"
    /\ quizData' = <<>>
    /\ userAnswers' = <<>>
    /\ UNCHANGED <<quizId, currentIndex, score, answered, dom, server, counts>>

\* The awaited call fails, or the result says success = false: the catch
\* block runs (showProcessing(false), resetSteps(), alert).
AwaitFails(r) ==
    /\ CanFail(r.pc)
    /\ inflight' = inflight \ {r}
    /\ lastOp' = "loadFailed"
    /\ UNCHANGED <<session, dom, server, counts>>

\* The last await succeeds with an empty data array and the handler throws
\* 'No questions found'.
EmptyRejected(r) ==
    /\ IsLastAwait(r)
    /\ RejectsEmpty(r.op)
    /\ inflight' = inflight \ {r}
    /\ lastOp' = "loadFailed"
    /\ UNCHANGED <<session, dom, server, counts>>

\* The last await succeeds and the handler stores the response.
LoadCompletes(r, data, id) ==
    /\ IsLastAwait(r)
    /\ RejectsEmpty(r.op) => Len(data) > 0
    /\ CASE r.op = "handleFileUpload" -> handleFileUploadStore(data, id)
         [] r.op = "handleJsonInput"  -> id = Undefined /\ handleJsonInputStore(data)
         [] r.op = "openSavedQuiz"    -> id # Undefined /\ openSavedQuizStore(data, id)
    /\ inflight' = inflight \ {r}
    /\ lastOp' = "loaded"
    /\ UNCHANGED <<server, counts>>

Next ==
    \/ \E letter \in Letters : ClickOption(letter)
    \/ ClickNext
    \/ ClickPrev
    \/ ClickRestart
    \/ ResetUpload
    \/ \E op \in LoadOps : StartLoad(op)
    \/ \E r \in inflight : AwaitResumes(r)
    \/ \E r \in inflight : AwaitFails(r)
    \/ \E r \in inflight : EmptyRejected(r)
    \/ \E r \in inflight, data \in Datasets, id \in QuizIds \cup {Undefined} :
          LoadCompletes(r, data, id)

Spec == Init /\ [][Next]_vars

\* ----------------------------------------------------------- vocabulary
\* Slot i (0-based) of userAnswers holds a letter.
IsSet(i) == i < Len(userAnswers) /\ userAnswers[i + 1] \in Letters

\* The dataset has a question at state.currentIndex.
HasCurrent == currentIndex < Len(quizData)

\* Some option of the rendered question is clicked (the submit operation).
Submit == \E letter \in Letters : ClickOption(letter)

\* ------------------------------------------------------------------ C1
\* C1: idempotent scoring.  Once an answer is recorded for question i, a
\* later submit on i (after navigating away and back) leaves score as it is.
C1_IdempotentScoring ==
    [][(Submit /\ HasCurrent /\ IsSet(currentIndex)) => score' = score]_vars

\* ------------------------------------------------------------------ C2
\* C2: with a dataset loaded, 0 <= score <= number of questions.
C2_ScoreWithinTotal ==
    quizData # <<>> => (0 <= score /\ score <= Len(quizData))

\* ------------------------------------------------------------------ C3
\* C3: going back onto a question whose answer is recorded shows it locked
\* (answered = true), and a submit on a question whose answer is recorded
\* changes neither score nor the recorded answer.
C3_GoBackLocked ==
    [][ /\ (ClickPrev /\ currentIndex > 0 /\ HasCurrent /\ IsSet(currentIndex - 1))
            => answered'
        /\ (Submit /\ HasCurrent /\ IsSet(currentIndex))
            => (score' = score /\ userAnswers' = userAnswers) ]_vars

\* ------------------------------------------------------------------ C4
\* C4: an advance taken while the current question is unanswered changes
\* neither currentIndex nor whether the results are shown.
C4_AdvanceOnlyWhenAnswered ==
    [][(ClickNext /\ ~answered)
        => (currentIndex' = currentIndex /\ resultsShown' = resultsShown)]_vars

\* ------------------------------------------------------------------ C5
\* C5: no transition skips an index.  Every step other than a restart or a
\* completed load moves currentIndex by -1, 0 or +1; an advance from an
\* answered question that is not the last one shows the next question
\* unanswered; and the results are entered only by an advance taken at the
\* last index.
C5_NoSkippedIndex ==
    [][ /\ (Submit \/ ClickNext \/ ClickPrev \/ ResetUpload
              \/ lastOp' \in {"loading", "loadFailed"})
            => currentIndex' - currentIndex \in {-1, 0, 1}
        /\ (ClickNext /\ answered /\ currentIndex < Len(quizData) - 1)
            => (currentIndex' = currentIndex + 1 /\ ~answered' /\ ~resultsShown')
        /\ (~resultsShown /\ resultsShown')
            => (ClickNext /\ currentIndex = Len(quizData) - 1) ]_vars

CurrentLetters ==
    IF HasCurrent THEN Range(quizData[currentIndex + 1].options) ELSE {}

\* C7: a submit of a letter that is not an option of the current question
\* leaves currentIndex, score, answered and userAnswers unchanged.
C7_InvalidOptionRejected ==
    [][(\E letter \in Letters \ CurrentLetters : ClickOption(letter))
        => UNCHANGED <<currentIndex, score, answered, userAnswers>>]_vars

\* ------------------------------------------------------------------ C8
\* C8: a submit made while the current question is already answered changes
\* neither score nor userAnswers.
C8_SubmitOnlyWhenAwaiting ==
    [][(Submit /\ answered) => (score' = score /\ userAnswers' = userAnswers)]_vars

\* An option was clicked on a question that was already answered.
C8_Witness ==
    /\ lastOp = "ignoredAnswer"
    /\ answered
    /\ HasCurrent
    /\ IsSet(currentIndex)

\* ------------------------------------------------------------------ C9
RestartYields ==
    /\ score' = 0
    /\ currentIndex' = 0
    /\ answered' = FALSE
    /\ userAnswers' = NullArray(Len(quizData))
    /\ quizData' = quizData

\* C9: from every reachable state, restartQuiz() yields score 0, currentIndex
\* 0, answered false, one unset userAnswers slot per question, and the same
\* dataset.
C9_RestartResets == ~ENABLED (restartQuiz /\ ~RestartYields)

\* A quiz with recorded answers and a positive score was restarted.
C9_Witness ==
    /\ lastOp = "restartQuiz"
    /\ Len(quizData) > 1
    /\ score = 0
    /\ userAnswers = NullArray(Len(quizData))

\* ----------------------------------------------------------------- C10
\* C10 as claimed: 0 <= currentIndex < number of questions, in every state.
C10_IndexInRange == 0 <= currentIndex /\ currentIndex < Len(quizData)

\* C10 as amended: whenever the dataset is not empty,
\* 0 <= currentIndex < number of questions.
C10_IndexInRangeWhenLoaded ==
    quizData # <<>> => (0 <= currentIndex /\ currentIndex < Len(quizData))

\* The last question of a dataset of several questions was reached by an
\* advance.
C10_Witness ==
    /\ lastOp = "nextQuestion"
    /\ activeShown
    /\ currentIndex > 0
    /\ currentIndex = Len(quizData) - 1


\* ----------------------------------------------------------------- C11
\* C11: in every reachable state userAnswers has exactly one slot per
\* question of the dataset, and slot k is unset or holds one of the option
\* letters of question k.
C11_AnswerSlotsMatchDataset ==
    /\ Len(userAnswers) = Len(quizData)
    /\ \A k \in 1..Len(userAnswers) :
          k <= Len(quizData)
            => (userAnswers[k] = Null \/ userAnswers[k] \in Range(quizData[k].options))

\* ----------------------------------------------------------------- C12
\* showResults(), review list: `userAnswer === question.correct`.  Strict
\* equality: null === null holds, null === undefined does not.
isCorrect(userAnswer, question) == userAnswer = question.correct

\* The entry showResults() writes for question k (1-based) of the review.
ReviewEntry(k) ==
    [userAnswer |-> userAnswers[k],
     correct    |-> quizData[k].correct,
     isCorrect  |-> isCorrect(userAnswers[k], quizData[k])]

\* Quiz JSON elements whose `correct` field is a letter, null, or missing.
ReportQuestions == [options : {<<"A", "B">>}, correct : Letters \cup {Null, Undefined}]

\* showResults() as a function of the state it reads: the dataset, the
\* answer slots (a letter or null) and the score are drawn freely, the
\* last question is on screen.
InitReport ==
    /\ quizData \in UNION {[1..n -> ReportQuestions] : n \in 1..MaxQuestions}
    /\ userAnswers \in [1..Len(quizData) -> Letters \cup {Null}]
    /\ score \in 0..Len(quizData)
    /\ quizId = Null
    /\ currentIndex = Len(quizData) - 1
    /\ answered \in BOOLEAN
    /\ emptyShown = FALSE
    /\ activeShown = TRUE
    /\ resultsShown = FALSE
    /\ nextDisabled = ~answered
    /\ prevShown = (currentIndex > 0)
    /\ rendered = quizData[Len(quizData)]
    /\ inflight = {}
    /\ lastOp = "init"
    /\ doc = <<>>
    /\ questions = <<>>
    /\ segments = <<>>
    /\ submits = 0
    /\ advances = 0

\* A call of showResults().
CompileReport ==
    /\ showResults
    /\ lastOp' = "showResults"
    /\ UNCHANGED <<session, emptyShown, nextDisabled, prevShown, rendered, inflight, server, counts>>

NextReport == CompileReport

SpecReport == InitReport /\ [][NextReport]_vars

C13_ReportOnlyWhenCompleted ==
    [][(~resultsShown /\ resultsShown')
        => (answered /\ \A i \in 0..(Len(quizData) - 1) : IsSet(i))]_vars

\* ----------------------------------------------------------------- C14
\* showResults(): Math.round((state.score / total) * 100) for total >= 1.
\* Math.round(x) is floor(x + 1/2); the quotient is taken exactly here,
\* which is what the double arithmetic yields for every total below 40 (at
\* 23 of 40 the double product is 57.49999999999999 and rounds to 57).
Percentage(s, t) == (200 * s + t) \div (2 * t)

\* showResults(): the heading chosen from pct.
Tier(pct) == IF pct >= 80 THEN "excellent" ELSE IF pct >= 50 THEN "good" ELSE "study"

\* C14: whenever the results of a non-empty dataset are shown, the
\* percentage lies within 0..100 and the tier is excellent from 80 up, good
\* from 50 to 79, study below 50.
C14_PercentageWithinRange ==
    (resultsShown /\ Len(quizData) >= 1) =>
        LET pct == Percentage(score, Len(quizData)) IN
            /\ pct \in 0..100
            /\ Tier(pct) = "excellent" <=> pct >= 80
            /\ Tier(pct) = "good" <=> (50 <= pct /\ pct < 80)
            /\ Tier(pct) = "study" <=> pct < 50

\* ----------------------------------------------------------------- C15
\* The last await of a load handler resolves with a data array of zero
\* questions (the handler rejects it or stores it).
EmptyLoadEnds ==
    \E r \in inflight :
        \/ EmptyRejected(r)
        \/ \E id \in QuizIds \cup {Undefined} : LoadCompletes(r, <<>>, id)

\* C15: a load whose data has zero questions, on any of the three load
\* paths, leaves quizData, currentIndex, score and userAnswers as they were.
C15_EmptyLoadKeepsState ==
    [][EmptyLoadEnds => UNCHANGED <<quizData, currentIndex, score, userAnswers>>]_vars

\* ----------------------------------------------------------------- C16
\* An awaited call of an in-flight load handler fails.
LoadFails == \E r \in inflight : AwaitFails(r)

\* C16: when the fetch, the response or the result of an in-flight
\* handleFileUpload, handleJsonInput or openSavedQuiz fails, quizData,
\* currentIndex, score, answered and userAnswers stay as they are, whatever
\* was done to the session while the call was pending.
C16_FailedLoadKeepsState ==
    [][LoadFails => UNCHANGED <<quizData, currentIndex, score, answered, userAnswers>>]_vars

\* A load failed on a session that had been loaded, answered and advanced.
C16_Witness ==
    /\ lastOp = "loadFailed"
    /\ Len(quizData) > 1
    /\ currentIndex > 0
    /\ answered
    /\ score > 0

\* ================================================================ server
\* parseQuizFromText() of the Express server (src/unnamed/part_000).  A
\* text is a sequence of non-blank lines; a line is known by what the
\* parser's regular expressions see of it:
\*   "stem"    /^\d+\./ matches: the marker `number`, then `text`
\*   "option"  /^[A-D]\./ matches: the `letter`, then `text`
\*   "answer"  an answer-key line `Answer: <letter>`
\*   "other"   anything else (a title, a footer)

\* Most blocks a document carries.
MaxBlocks == 2

\* The letters /^[A-D]\./ accepts, in order.
OptionLetters == <<"A", "B", "C", "D">>

\* The text written after each option letter (distinct from one another, and
\* none of them the text "8").
OptionText(letter) ==
    CASE letter = "A" -> "alpha"
      [] letter = "B" -> "beta"
      [] letter = "C" -> "gamma"
      [] letter = "D" -> "delta"

\* Question texts: one that contains "5 + 3" and one that does not.
StemTexts == {"What is 5 + 3 - 2?", "Which law?"}

\* questionLine.includes("5 + 3")
IncludesFivePlusThree(text) == text = "What is 5 + 3 - 2?"

NoStem == "no stem"
NoKey == "no key"

\* The option letters a block is written with: contiguous from A, a single
\* option, a gap, a repeat, out of order, or none at all.
OptionRuns ==
    {<<"A", "B">>, <<"A", "B", "C">>, <<"A", "B", "C", "D">>,
     <<>>, <<"A">>, <<"A", "C">>, <<"A", "A">>, <<"B", "A">>}

\* A block as written in the document: its question text, its option
\* letters in order, and the letter of its `Answer:` line if there is one.
\* A chunk with no number marker is a single line of prose.
Blocks ==
    [stem : StemTexts, run : OptionRuns, key : {NoKey, "A", "C"}]
        \cup {[stem |-> NoStem, run |-> <<>>, key |-> NoKey]}

Documents == UNION {[1..n -> Blocks] : n \in 0..MaxBlocks}

StemLine(n, text)    == [kind |-> "stem", number |-> n, letter |-> "", text |-> text]
OptionLine(letter)   == [kind |-> "option", number |-> 0, letter |-> letter, text |-> OptionText(letter)]
AnswerLine(letter)   == [kind |-> "answer", number |-> 0, letter |-> letter, text |-> ""]
OtherLine            == [kind |-> "other", number |-> 0, letter |-> "", text |-> ""]

\* The lines of block b, written as the n-th chunk of a document.
BlockLines(n, b) ==
    IF b.stem = NoStem
      THEN <<OtherLine>>
      ELSE <<StemLine(n, b.stem)>>
             \o [k \in 1..Len(b.run) |-> OptionLine(b.run[k])]
             \o (IF b.key = NoKey THEN <<>> ELSE <<AnswerLine(b.key)>>)

\* The text of a document: its chunks one after the other.
RECURSIVE TextFrom(_, _)
TextFrom(d, n) ==
    IF n > Len(d) THEN <<>> ELSE BlockLines(n, d[n]) \o TextFrom(d, n + 1)

Text(d) == TextFrom(d, 1)

\* text.split(/\n\s*(?=\d+\.)/): a new chunk starts at every line, other
\* than the first, that begins with a number marker.
\* A split that never cuts: the whole text as one chunk.
rawBlocksUnsplit(lines) == IF lines = <<>> THEN <<>> ELSE <<lines>>

RECURSIVE rawBlocks(_)
rawBlocks(lines) ==
    IF lines = <<>>
      THEN <<>>
      ELSE LET starts == {k \in 2..Len(lines) : lines[k].kind = "stem"}
               cut == IF starts = {} THEN Len(lines) + 1
                      ELSE CHOOSE k \in starts : \A j \in starts : k <= j
           IN  <<SubSeq(lines, 1, cut - 1)>> \o rawBlocks(SubSeq(lines, cut, Len(lines)))

\* block = block.trim(); /^\d+\./.test(block)
StartsWithMarker(block) == block[1].kind = "stem"

\* The chunks for which the forEach body goes past its first return.
segment(lines) == SelectSeq(rawBlocks(lines), StartsWithMarker)

IsOption(line) == line.kind = "option"

\* The body of rawBlocks.forEach: the questions one chunk contributes (one
\* or none).  The answer is the third option's text, "8" when the question
\* contains "5 + 3", and the first option's text when there is no third.
parseBlock(block) ==
    IF block[1].kind # "stem" \/ Len(block) < 2
      THEN <<>>
      ELSE LET questionLine == block[1].text
               optionLines == SelectSeq(block, IsOption)
               options == [k \in 1..Len(optionLines) |-> optionLines[k].text]
               detectedAnswer ==
                   IF IncludesFivePlusThree(questionLine) THEN "8"
                   ELSE IF Len(options) >= 3 THEN options[3] ELSE Undefined
           IN  IF Len(options) > 0
                 THEN <<[question |-> questionLine,
                         options  |-> options,
                         answer   |-> IF detectedAnswer # Undefined
                                        THEN detectedAnswer ELSE options[1]]>>
                 ELSE <<>>

RECURSIVE parseBlocks(_)
parseBlocks(blocks) ==
    IF blocks = <<>> THEN <<>>
    ELSE parseBlock(Head(blocks)) \o parseBlocks(Tail(blocks))

parseQuizFromText(lines) == parseBlocks(rawBlocks(lines))

\* The server holds a document and has parsed nothing; the front end is in
\* its initial state and stays there.
InitParse ==
    /\ doc \in Documents
    /\ questions = <<>>
    /\ segments = <<>>
    /\ submits = 0
    /\ advances = 0
    /\ quizData = <<>>
    /\ quizId = Null
    /\ currentIndex = 0
    /\ score = 0
    /\ answered = FALSE
    /\ userAnswers = <<>>
    /\ emptyShown = TRUE
    /\ activeShown = FALSE
    /\ resultsShown = FALSE
    /\ nextDisabled = TRUE
    /\ prevShown = FALSE
    /\ rendered = NoQuestion
    /\ inflight = {}
    /\ lastOp = "init"

\* The /upload route: const quiz = parseQuizFromText(text).
Upload ==
    /\ lastOp = "init"
    /\ questions' = parseQuizFromText(Text(doc))
    /\ segments' = segment(Text(doc))
    /\ lastOp' = "parseQuizFromText"
    /\ UNCHANGED <<doc, session, dom, inflight, counts>>

NextParse == Upload

SpecParse == InitParse /\ [][NextParse]_vars

Parsed == lastOp = "parseQuizFromText"

\* Block b has at least two options, lettered A, B, ... in order.
WellLettered(b) ==
    /\ Len(b.run) >= 2
    /\ \A k \in 1..Len(b.run) : b.run[k] = OptionLetters[k]

\* Block b is well formed and carries an answer key naming one of its options.
WellFormed(b) ==
    /\ b.stem # NoStem
    /\ WellLettered(b)
    /\ b.key \in Range(b.run)

\* ----------------------------------------------------------------- C17
\* C17: a document of N well-formed blocks with answer keys is parsed into
\* exactly N questions, question k carrying the text and the options of
\* block k, and each question's answer is one of its own options.
C17_WellFormedAllExtracted ==
    (Parsed /\ \A n \in 1..Len(doc) : WellFormed(doc[n])) =>
        /\ Len(questions) = Len(doc)
        /\ \A k \in 1..Len(questions) :
              k <= Len(doc) =>
                /\ questions[k].question = doc[k].stem
                /\ questions[k].options = [j \in 1..Len(doc[k].run) |-> OptionText(doc[k].run[j])]
                /\ questions[k].answer \in Range(questions[k].options)

\* ----------------------------------------------------------------- C18
\* C18: when every block of the document yields a question, the answer of
\* the question taken from a block whose `Answer:` line names one of the
\* block's option letters is the text of that option.
C18_AnswerKeyIsCanonical ==
    (Parsed /\ Len(questions) = Len(doc)) =>
        \A k \in 1..Len(doc) :
            doc[k].key \in Range(doc[k].run)
                => questions[k].answer = OptionText(doc[k].key)

\* ----------------------------------------------------------------- C19
\* C19: blocks without an answer key yield no question: there are at most
\* as many questions as blocks with an `Answer:` line, and none at all when
\* no block has one.
C19_NoKeyNoQuestion ==
    Parsed => Len(questions) <= Cardinality({n \in 1..Len(doc) : doc[n].key # NoKey})

\* ----------------------------------------------------------------- C20
\* C20: every extracted question has 2 to 4 options, and they are the
\* options lettered A, B, ... in order (no gap, no repeat).
C20_OptionsContiguous ==
    Parsed =>
        \A k \in 1..Len(questions) :
            /\ Len(questions[k].options) \in 2..4
            /\ \A j \in 1..Len(questions[k].options) :
                  j <= 4 => questions[k].options[j] = OptionText(OptionLetters[j])

\* ----------------------------------------------------------------- C21
IsMarker(line) == line.kind = "stem"

\* The number markers of a text, in order of appearance.
Markers(lines) ==
    LET m == SelectSeq(lines, IsMarker) IN [k \in 1..Len(m) |-> m[k].number]

RECURSIVE Concat(_)
Concat(seqs) == IF seqs = <<>> THEN <<>> ELSE Head(seqs) \o Concat(Tail(seqs))

\* The text from its first number marker on (nothing when it has none).
FromFirstMarker(lines) ==
    LET at == {k \in 1..Len(lines) : IsMarker(lines[k])} IN
        IF at = {} THEN <<>>
        ELSE SubSeq(lines, CHOOSE k \in at : \A j \in at : k <= j, Len(lines))

\* C21: the leading numbers of the produced blocks are the number markers
\* of the text in document order; every block starts with a marker and
\* holds no second one (none merged); and the blocks together are the text
\* from its first marker on, so only a chunk without a leading marker is
\* dropped.
C21_SegmentationKeepsOrder ==
    Parsed =>
        /\ [k \in 1..Len(segments) |-> segments[k][1].number] = Markers(Text(doc))
        /\ \A k \in 1..Len(segments) :
              /\ IsMarker(segments[k][1])
              /\ \A j \in 2..Len(segments[k]) : ~IsMarker(segments[k][j])
        /\ Concat(segments) = FromFirstMarker(Text(doc))

\* A document of two numbered blocks was split into its two blocks.
C21_Witness ==
    /\ Parsed
    /\ Len(doc) = 2
    /\ doc[1].stem # NoStem
    /\ doc[2].stem # NoStem
    /\ Len(segments) = 2
    /\ segments[1] # segments[2]

\* ----------------------------------------------------------------- C22
\* C22: right after a load has stored its dataset (handleFileUpload,
\* handleJsonInput or openSavedQuiz), currentIndex = 0, score = 0, answered
\* is false and userAnswers has one unset slot per question.
C22_LoadStartsFresh ==
    lastOp = "loaded" =>
        /\ currentIndex = 0
        /\ score = 0
        /\ ~answered
        /\ userAnswers = NullArray(Len(quizData))

\* A dataset of several questions has just been stored and its first
\* question rendered.
C22_Witness ==
    /\ lastOp = "loaded"
    /\ Len(quizData) > 1
    /\ activeShown
    /\ rendered = quizData[1]

\* ----------------------------------------------------------------- C23
\* The questions whose recorded answer equals their correct letter: the
\* entries showResults() marks correct.
CorrectlyAnswered ==
    {k \in 1..Len(quizData) :
        k <= Len(userAnswers) /\ isCorrect(userAnswers[k], quizData[k])}

\* C23: in every reachable state the score is the number of questions whose
\* recorded answer equals their correct letter.
C23_ScoreCountsCorrect == score = Cardinality(CorrectlyAnswered)

\* ----------------------------------------------------------------- C24
\* C24: while a dataset is loaded (an attempt is under way or finished),
\* every index below currentIndex has its answer recorded, and while the
\* results are shown every question of the dataset has one.
C24_NoGapBelowCurrent ==
    quizData # <<>> =>
        /\ \A i \in 0..(currentIndex - 1) : IsSet(i)
        /\ resultsShown => \A i \in 0..(Len(quizData) - 1) : IsSet(i)

\* The results of a dataset of several questions are shown.
C24_Witness ==
    /\ resultsShown
    /\ Len(quizData) > 1
    /\ currentIndex = Len(quizData) - 1
    /\ \A i \in 0..(Len(quizData) - 1) : IsSet(i)

\* ----------------------------------------------------------------- C25
\* C25: a submit leaves currentIndex, the dataset and every userAnswers
\* slot other than the current one as they are; an advance and a goBack
\* leave the dataset, score and every userAnswers slot as they are.
C25_FrameEffects ==
    [][ /\ Submit =>
              /\ currentIndex' = currentIndex
              /\ quizData' = quizData
              /\ Len(userAnswers') >= Len(userAnswers)
              /\ \A k \in 1..Len(userAnswers) :
                    k # currentIndex + 1 => userAnswers'[k] = userAnswers[k]
        /\ (ClickNext \/ ClickPrev) =>
              /\ quizData' = quizData
              /\ score' = score
              /\ userAnswers' = userAnswers ]_vars

\* The second question of a dataset was answered, the first one holding
\* its answer.
C25_Witness ==
    /\ lastOp = "handleAnswer"
    /\ currentIndex = 1
    /\ IsSet(0)
    /\ IsSet(1)
    /\ score > 1

\* ----------------------------------------------------------------- C26
\* C26: after a load has stored its dataset, quizId is the id that came
\* with that dataset, or null when none came with it; after resetUpload,
\* which discards the dataset, quizId is null.
C26_QuizIdIsCurrent ==
    [][ /\ \A r \in inflight, data \in Datasets, id \in QuizIds \cup {Undefined} :
              LoadCompletes(r, data, id)
                  => quizId' = IF id = Undefined THEN Null ELSE id
        /\ ResetUpload => quizId' = Null ]_vars

\* ----------------------------------------------------------------- C27
\* A straight run: the state right after a load stored a dataset of at
\* least one question, from which only options and #next-btn are clicked.
InitRun ==
    /\ quizData \in Datasets \ {<<>>}
    /\ quizId \in QuizIds \cup {Null}
    /\ currentIndex = 0
    /\ score = 0
    /\ answered = FALSE
    /\ userAnswers = NullArray(Len(quizData))
    /\ emptyShown = FALSE
    /\ activeShown = TRUE
    /\ resultsShown = FALSE
    /\ nextDisabled = TRUE
    /\ prevShown = FALSE
    /\ rendered = quizData[1]
    /\ inflight = {}
    /\ lastOp = "loaded"
    /\ doc = <<>>
    /\ questions = <<>>
    /\ segments = <<>>
    /\ submits = 0
    /\ advances = 0

\* A click on an option; it counts as a submit when handleAnswer() takes it.
RunSubmit(letter) ==
    /\ QuizActivePanel
    /\ letter \in Range(rendered.options)
    /\ handleAnswer(letter, rendered.correct)
    /\ lastOp' = IF answered THEN "ignoredAnswer" ELSE "handleAnswer"
    /\ submits' = IF answered THEN submits ELSE submits + 1
    /\ UNCHANGED <<inflight, server, advances>>

\* A click on #next-btn.  The count stops one past the number of questions.
RunAdvance ==
    /\ QuizActivePanel
    /\ ~nextDisabled
    /\ advances <= Len(quizData)
    /\ nextQuestion
    /\ lastOp' = "nextQuestion"
    /\ advances' = advances + 1
    /\ UNCHANGED <<inflight, server, submits>>

RunSubmits == \E letter \in Letters : RunSubmit(letter)

NextRun ==
    \/ RunSubmits
    \/ RunAdvance

SpecRun == InitRun /\ [][NextRun]_vars /\ WF_vars(RunSubmits) /\ WF_vars(RunAdvance)

\* C27: a straight run over N >= 1 questions reaches the results; when it
\* does, N submits were accepted and N advances made; and on the way
\* currentIndex only stays or grows by one, being the number of advances
\* made until the results are shown.
C27_RunCompletes ==
    /\ <>resultsShown
    /\ [](resultsShown => (submits = Len(quizData) /\ advances = Len(quizData)))
    /\ [](~resultsShown => currentIndex = advances)
    /\ [][currentIndex' \in {currentIndex, currentIndex + 1}]_vars

\* The results of a dataset of several questions were reached in a
\* straight run.
C27_Witness ==
    /\ resultsShown
    /\ Len(quizData) > 1
    /\ submits = Len(quizData)
    /\ advances = Len(quizData)
    /\ currentIndex = Len(quizData) - 1

=============================================================================
